---- MODULE Spec2Model ----
(***************************************************************************)
(* Control plane of the swarm workflow executor: the node state machine    *)
(* (crates/core/src/state.rs), the workflow DAG (crates/core/src/dag.rs)   *)
(* and the scheduler (crates/core/src/scheduler.rs).                       *)
(*                                                                         *)
(* Option<T> is a sequence of length <= 1: None is << >>, Some(v) is <<v>>.*)
(* Strings that the code inspects by prefix (node types, capabilities) are *)
(* sequences of characters.  DateTime<Utc> is a natural number read off    *)
(* the clock `now`.                                                        *)
(***************************************************************************)
EXTENDS Integers, Sequences, FiniteSets, TLC

VARIABLES
    now,            \* the wall clock read by Utc::now()
    ctx,            \* a stand-alone NodeContext
    ret,            \* what the last call returned
    graph_nodes,    \* WorkflowDag.graph: node weights by NodeIndex (index + 1)
    graph_edges,    \* WorkflowDag.graph: edges in insertion order
    node_indices,   \* WorkflowDag.node_indices: id -> NodeIndex
    contexts,       \* WorkflowDag.contexts: id -> NodeContext
    servers,        \* Scheduler.servers: address -> ServerInfo
    server_order,   \* iteration order of the servers HashMap
    strategy,       \* Scheduler.strategy
    rr_index,       \* Scheduler.rr_index
    session_affinities, \* Scheduler.session_affinities
    retry_policy,   \* Scheduler.retry_policy
    registration_order, \* history: addresses in the order they were first registered
    events_table,   \* the rows of the `events` table in the log's database
    wal_open,       \* whether a WriteAheadLog is open on the database
    next_sequence,  \* WriteAheadLog.next_sequence
    append_log,     \* history: the envelopes appended, in append order
    appends_since_open, \* history: how many of them went through the open handle
    subscriber,     \* an EventSubscriber, if one was created
    sub_start,      \* history: the sequence the subscriber was created with
    delivered,      \* history: the envelopes its polls returned, in order
    workflow_state, \* WorkflowContext.state of the execution
    callbacks,      \* the CallbackMessages servers have sent, with their deliveries
    waiting,        \* the nodes whose delayed re-enqueue has not fired yet
    delays_applied, \* history: the backoff delays applied, in order
    token           \* the AccessToken a server holds, if one was issued

ctxVars == <<now, ctx>>
dagVars == <<graph_nodes, graph_edges, node_indices, contexts>>
schedVars == <<servers, server_order, strategy, rr_index, session_affinities,
               retry_policy, registration_order>>
walVars == <<events_table, wal_open, next_sequence, append_log, appends_since_open>>
subVars == <<subscriber, sub_start, delivered>>
execVars == <<workflow_state, callbacks, waiting, delays_applied>>
tokenVars == <<token>>
vars == <<now, ctx, ret, graph_nodes, graph_edges, node_indices, contexts,
          servers, server_order, strategy, rr_index, session_affinities,
          retry_policy, registration_order,
          events_table, wal_open, next_sequence, append_log, appends_since_open,
          subscriber, sub_start, delivered,
          workflow_state, callbacks, waiting, delays_applied, token>>

\* ------------------------------------------------------------------ bounds
MaxTime == 2
CtxMaxHist == 6
MaxRetriesInput == 1

\* ------------------------------------------------------------ Option<T>
None == << >>
Some(v) == <<v>>
IsNone(o) == o = << >>
IsSome(o) == o # << >>

\* ------------------------------------------------------------ NodeState
NodeState == {"Pending", "Scheduled", "Running", "Done", "Failed", "Cancelled", "Retrying"}

is_terminal(s) == s \in {"Done", "Failed", "Cancelled"}

can_schedule(s) == s \in {"Pending", "Retrying"}

\* A valid_transitions in which a running node cannot be cancelled.
valid_transitions_uncancellable(s) ==
    CASE s = "Pending"   -> <<"Scheduled", "Cancelled">>
      [] s = "Scheduled" -> <<"Running", "Failed", "Cancelled">>
      [] s = "Running"   -> <<"Done", "Failed">>
      [] s = "Failed"    -> <<"Retrying", "Cancelled">>
      [] s = "Retrying"  -> <<"Scheduled", "Cancelled">>
      [] s = "Done"      -> << >>
      [] s = "Cancelled" -> << >>

\* A valid_transitions that lets a finished node run again.
valid_transitions_reopen(s) ==
    CASE s = "Pending"   -> <<"Scheduled", "Cancelled">>
      [] s = "Scheduled" -> <<"Running", "Failed", "Cancelled">>
      [] s = "Running"   -> <<"Done", "Failed", "Cancelled">>
      [] s = "Failed"    -> <<"Retrying", "Cancelled">>
      [] s = "Retrying"  -> <<"Scheduled", "Cancelled">>
      [] s = "Done"      -> <<"Running">>
      [] s = "Cancelled" -> << >>

valid_transitions(s) ==
    CASE s = "Pending"   -> <<"Scheduled", "Cancelled">>
      [] s = "Scheduled" -> <<"Running", "Failed", "Cancelled">>
      [] s = "Running"   -> <<"Done", "Failed", "Cancelled">>
      [] s = "Failed"    -> <<"Retrying", "Cancelled">>
      [] s = "Retrying"  -> <<"Scheduled", "Cancelled">>
      [] s = "Done"      -> << >>
      [] s = "Cancelled" -> << >>

\* Vec::contains
Contains(vec, x) == \E i \in 1..Len(vec) : vec[i] = x

\* ---------------------------------------------------------- NodeContext
\* A StateTransition::new that records the target as the origin.
StateTransitionNew_swapped(from, to, reason, t) ==
    [from |-> to, to |-> to, timestamp |-> t, reason |-> reason]

StateTransitionNew(from, to, reason, t) ==
    [from |-> from, to |-> to, timestamp |-> t, reason |-> reason]

DefaultMaxRetries == 3

NodeContextNew(node_id) ==
    [node_id |-> node_id, state |-> "Pending", retry_count |-> 0,
     max_retries |-> DefaultMaxRetries, last_error |-> None, started_at |-> None,
     completed_at |-> None, server |-> None, transitions |-> << >>]

with_retries(node_id, max_retries) ==
    [NodeContextNew(node_id) EXCEPT !.max_retries = max_retries]

can_transition_to(c, to) == Contains(valid_transitions(c.state), to)

\* A timing update that stamps started_at on every entry into Running.
UpdateTiming_restamp(c, to, t2) ==
    CASE to = "Running" -> [c EXCEPT !.started_at = Some(t2)]
      [] to \in {"Done", "Failed", "Cancelled"} -> [c EXCEPT !.completed_at = Some(t2)]
      [] to = "Retrying" -> [c EXCEPT !.retry_count = c.retry_count + 1]
      [] OTHER -> c

\* The timing match of transition_with_reason; t2 is the second clock reading.
UpdateTiming(c, to, t2) ==
    CASE to = "Running" ->
           IF IsNone(c.started_at) THEN [c EXCEPT !.started_at = Some(t2)] ELSE c
      [] to \in {"Done", "Failed", "Cancelled"} -> [c EXCEPT !.completed_at = Some(t2)]
      [] to = "Retrying" -> [c EXCEPT !.retry_count = c.retry_count + 1]
      [] OTHER -> c

\* A transition_with_reason that records the transition before validating it.
transition_with_reason_eager(c, to, reason, t1, t2) ==
    LET tr == StateTransitionNew(c.state, to, reason, t1)
        c1 == [c EXCEPT !.transitions = Append(c.transitions, tr)]
    IN IF ~can_transition_to(c, to)
       THEN <<[ok |-> FALSE, err |-> "InvalidTransition", from |-> c.state, to |-> to], c1>>
       ELSE <<[ok |-> TRUE, err |-> "", from |-> tr.from, to |-> tr.to],
              UpdateTiming([c1 EXCEPT !.state = to], to, t2)>>

\* transition_with_reason: the pair <<result, context after the call>>.  t1 is
\* the clock reading of StateTransition::new, t2 that of the timing update.
transition_with_reason(c, to, reason, t1, t2) ==
    IF ~can_transition_to(c, to)
    THEN <<[ok |-> FALSE, err |-> "InvalidTransition", from |-> c.state, to |-> to], c>>
    ELSE LET tr == StateTransitionNew(c.state, to, reason, t1)
             c1 == [c EXCEPT !.transitions = Append(c.transitions, tr), !.state = to]
         IN <<[ok |-> TRUE, err |-> "", from |-> tr.from, to |-> tr.to],
              UpdateTiming(c1, to, t2)>>

transition(c, to, t1, t2) == transition_with_reason(c, to, None, t1, t2)

fail(c, error, t1, t2) ==
    transition_with_reason([c EXCEPT !.last_error = Some(error)], "Failed",
                           Some(error), t1, t2)

\* A can_retry that is off by one.
can_retry_inclusive(c) == c.state = "Failed" /\ c.retry_count <= c.max_retries

can_retry(c) == c.state = "Failed" /\ c.retry_count < c.max_retries

\* duration: completed_at - started_at when both are set.
duration(c) ==
    IF IsSome(c.started_at) /\ IsSome(c.completed_at)
    THEN Some(c.completed_at[1] - c.started_at[1])
    ELSE None

\* ---------------------------------------------------------- RetryPolicy
\* backoff_multiplier is an f64 in the code; the model takes multipliers that
\* are small integers, for which the f64 product below is exact.
RetryPolicy(max_retries, backoff_ms, backoff_multiplier, max_backoff_ms) ==
    [max_retries |-> max_retries, backoff_ms |-> backoff_ms,
     backoff_multiplier |-> backoff_multiplier, max_backoff_ms |-> max_backoff_ms]

\* impl Default for RetryPolicy
RetryPolicyDefault == RetryPolicy(3, 1000, 2, 30000)

\* A u32 is kept as its two 16-bit halves: the value is hi * 65536 + lo.
U32(hi, lo) == [hi |-> hi, lo |-> lo]

\* `retry_count as i32`: the same 32 bits read as two's complement.
as_i32(k) ==
    IF k.hi < 32768 THEN k.hi * 65536 + k.lo
    ELSE (k.hi - 65536) * 65536 + k.lo

RECURSIVE TimesPow(_, _, _, _)
\* acc * m^n for n >= 0, followed only until it exceeds cap: every value above
\* cap (f64 infinity included, which `as u64` saturates) ends as cap after min.
TimesPow(acc, m, n, cap) ==
    IF n = 0 \/ acc > cap \/ acc = 0 \/ m = 1 THEN acc
    ELSE TimesPow(acc * m, m, n - 1, cap)

RECURSIVE OverPow(_, _, _)
\* acc * m^n for n <= 0, truncated toward zero as `as u64` does.
OverPow(acc, m, n) ==
    IF n = 0 \/ acc = 0 \/ m = 1 THEN acc
    ELSE OverPow(acc \div m, m, n + 1)

Min(a, b) == IF a <= b THEN a ELSE b

\* RetryPolicy::calculate_backoff
calculate_backoff(policy, retry_count) ==
    LET n == as_i32(retry_count)
        delay == IF n >= 0
                 THEN TimesPow(policy.backoff_ms, policy.backoff_multiplier, n,
                               policy.max_backoff_ms)
                 ELSE OverPow(policy.backoff_ms, policy.backoff_multiplier, n)
    IN Min(delay, policy.max_backoff_ms)

\* ------------------------------------------------- empty DAG / scheduler
DagEmpty ==
    /\ graph_nodes = << >>
    /\ graph_edges = << >>
    /\ node_indices = << >>
    /\ contexts = << >>

SchedulerEmpty ==
    /\ servers = << >>
    /\ server_order = << >>
    /\ strategy = "RoundRobin"
    /\ rr_index = 0
    /\ session_affinities = << >>
    /\ retry_policy = RetryPolicyDefault
    /\ registration_order = << >>

\* No event log is open and its database holds no rows.
WalAbsent ==
    /\ events_table = {}
    /\ wal_open = FALSE
    /\ next_sequence = 0
    /\ append_log = << >>
    /\ appends_since_open = 0

\* No subscriber was created.
SubAbsent ==
    /\ subscriber = << >>
    /\ sub_start = 0
    /\ delivered = << >>

\* No execution is under way.
ExecAbsent ==
    /\ workflow_state = "Pending"
    /\ callbacks = {}
    /\ waiting = {}
    /\ delays_applied = << >>

\* No token was issued.
TokenAbsent == token = << >>

NoCall == [op |-> "none"]

\* ------------------------------------------- a NodeContext on its own
InitCtx ==
    /\ now = 0
    /\ \/ ctx = NodeContextNew("n")
       \/ \E m \in 0..MaxRetriesInput : ctx = with_retries("n", m)
    /\ ret = NoCall
    /\ DagEmpty
    /\ SchedulerEmpty
    /\ WalAbsent
    /\ SubAbsent
    /\ ExecAbsent
    /\ TokenAbsent

\* Time passes between calls.
Tick ==
    /\ now < MaxTime
    /\ now' = now + 1
    /\ UNCHANGED <<walVars, ctx, ret, dagVars, subVars, tokenVars, execVars, schedVars>>

\* ctx.transition(to)
CtxTransition ==
    \E to \in NodeState, d \in 0..1 :
        /\ now + d <= MaxTime
        /\ Len(ctx.transitions) < CtxMaxHist
        /\ LET r == transition(ctx, to, now, now + d)
           IN /\ ctx' = r[2]
              /\ ret' = [op |-> "transition", arg |-> to, res |-> r[1]]
              /\ now' = IF r[1].ok THEN now + d ELSE now
        /\ UNCHANGED <<walVars, dagVars, subVars, tokenVars, execVars, schedVars>>

\* ctx.fail(error)
CtxFail ==
    \E d \in 0..1 :
        /\ now + d <= MaxTime
        /\ Len(ctx.transitions) < CtxMaxHist
        /\ LET r == fail(ctx, "boom", now, now + d)
           IN /\ ctx' = r[2]
              /\ ret' = [op |-> "fail", arg |-> "Failed", res |-> r[1]]
              /\ now' = IF r[1].ok THEN now + d ELSE now
        /\ UNCHANGED <<walVars, dagVars, subVars, tokenVars, execVars, schedVars>>

\* ctx.can_retry()
CtxCanRetry ==
    /\ ret' = [op |-> "can_retry", arg |-> "", res |-> can_retry(ctx)]
    /\ UNCHANGED <<walVars, ctxVars, dagVars, subVars, tokenVars, execVars, schedVars>>

NextCtx == Tick \/ CtxTransition \/ CtxFail \/ CtxCanRetry

SpecCtx == InitCtx /\ [][NextCtx]_vars

\* ------------------------------------------------------------ WorkflowDag
\* Node types and capability prefixes, as character strings.
TypeAiChat == <<"a", "i", ".", "c", "h", "a", "t">>
TypeCodePy == <<"c", "o", "d", "e", ".", "p", "y">>

NodeIds == <<"A", "B", "C", "D">>

\* The WorkflowNode a NodeBuilder builds for each id (name, config and position
\* are carried along but never read).
NodeOf(id) ==
    CASE id = "A" -> [id |-> "A", node_type |-> TypeAiChat, inputs |-> << >>,
                      outputs |-> <<[name |-> "out", dtype |-> "string"],
                                    [name |-> "out2", dtype |-> "string"]>>]
      [] id = "B" -> [id |-> "B", node_type |-> TypeCodePy,
                      inputs |-> <<[name |-> "in", dtype |-> "string", required |-> TRUE],
                                   [name |-> "in2", dtype |-> "string", required |-> FALSE]>>,
                      outputs |-> <<[name |-> "out", dtype |-> "string"]>>]
      [] id = "C" -> [id |-> "C", node_type |-> TypeAiChat,
                      inputs |-> <<[name |-> "in", dtype |-> "string", required |-> TRUE],
                                   [name |-> "t", dtype |-> "tensor", required |-> FALSE]>>,
                      outputs |-> <<[name |-> "out", dtype |-> "string"]>>]
      [] OTHER    -> [id |-> id, node_type |-> TypeCodePy,
                      inputs |-> <<[name |-> "in", dtype |-> "string", required |-> TRUE],
                                   [name |-> "in2", dtype |-> "string", required |-> TRUE]>>,
                      outputs |-> << >>]

WorkflowEdge(source_output, target_input) ==
    [source_output |-> source_output, target_input |-> target_input, transform |-> None]

\* HashMap::insert
MapInsert(map, k, v) == (k :> v) @@ map

\* add_node: <<NodeIndex, graph nodes, node_indices, contexts>> after the call.
add_node(node) ==
    LET index == Len(graph_nodes) + 1
    IN <<index, Append(graph_nodes, node), MapInsert(node_indices, node.id, index),
         MapInsert(contexts, node.id, NodeContextNew(node.id))>>

\* An add_edge that forgets to look up the target and accepts the call.
add_edge_target_unchecked(from, to, edge) ==
    IF from \notin DOMAIN node_indices
    THEN <<[ok |-> FALSE, err |-> "NodeNotFound", id |-> from], graph_edges>>
    ELSE IF to \notin DOMAIN node_indices
    THEN <<[ok |-> TRUE, err |-> "", id |-> ""], graph_edges>>
    ELSE <<[ok |-> TRUE, err |-> "", id |-> ""],
           Append(graph_edges, [source |-> node_indices[from],
                                target |-> node_indices[to], weight |-> edge])>>

\* add_edge: <<result, graph edges after the call>>.
add_edge(from, to, edge) ==
    IF from \notin DOMAIN node_indices
    THEN <<[ok |-> FALSE, err |-> "NodeNotFound", id |-> from], graph_edges>>
    ELSE IF to \notin DOMAIN node_indices
    THEN <<[ok |-> FALSE, err |-> "NodeNotFound", id |-> to], graph_edges>>
    ELSE <<[ok |-> TRUE, err |-> "", id |-> ""],
           Append(graph_edges, [source |-> node_indices[from],
                                target |-> node_indices[to], weight |-> edge])>>

\* get_node
get_node(node_id) ==
    IF node_id \in DOMAIN node_indices THEN Some(graph_nodes[node_indices[node_id]]) ELSE None

\* node_ids: the keys of node_indices.
node_ids == DOMAIN node_indices

\* node_count: the number of vertices of the graph.
node_count == Len(graph_nodes)

\* petgraph neighbors_directed: one entry per edge at idx in direction dir, the
\* most recently added edge first.
neighbors_directed(idx, dir) ==
    LET F[k \in 0..Len(graph_edges)] ==
            IF k = 0 THEN << >>
            ELSE LET e == graph_edges[k]
                 IN IF dir = "Incoming" /\ e.target = idx THEN <<e.source>> \o F[k - 1]
                    ELSE IF dir = "Outgoing" /\ e.source = idx THEN <<e.target>> \o F[k - 1]
                    ELSE F[k - 1]
    IN F[Len(graph_edges)]

\* A readiness filter that is content with one finished dependency.
NodeIsReady_any(id) ==
    LET is_pending == id \in DOMAIN contexts /\ can_schedule(contexts[id].state)
        deps == neighbors_directed(node_indices[id], "Incoming")
    IN /\ is_pending
       /\ (deps = << >> \/ \E k \in 1..Len(deps) :
              LET n == graph_nodes[deps[k]]
              IN n.id \in DOMAIN contexts /\ contexts[n.id].state = "Done")

\* The filter closure of get_ready_nodes.
NodeIsReady(id) ==
    LET is_pending == id \in DOMAIN contexts /\ can_schedule(contexts[id].state)
        deps == neighbors_directed(node_indices[id], "Incoming")
    IN /\ is_pending
       /\ \A k \in 1..Len(deps) :
              LET n == graph_nodes[deps[k]]
              IN n.id \in DOMAIN contexts /\ contexts[n.id].state = "Done"

\* get_ready_nodes: a Vec in the iteration order of the node_indices HashMap,
\* which is unspecified; the ids it holds.
get_ready_nodes == {id \in DOMAIN node_indices : NodeIsReady(id)}

\* get_dependencies: the ids at the far end of the incoming edges, one per edge.
get_dependencies(node_id) ==
    IF node_id \notin DOMAIN node_indices THEN << >>
    ELSE LET deps == neighbors_directed(node_indices[node_id], "Incoming")
         IN [k \in 1..Len(deps) |-> graph_nodes[deps[k]].id]

\* get_dependents: the ids at the far end of the outgoing edges, one per edge.
get_dependents(node_id) ==
    IF node_id \notin DOMAIN node_indices THEN << >>
    ELSE LET deps == neighbors_directed(node_indices[node_id], "Outgoing")
         IN [k \in 1..Len(deps) |-> graph_nodes[deps[k]].id]

\* ------------------------------------------------ building a WorkflowDag
MaxGraphNodes == 3
MaxEdges == 3

\* The ids in the DAG, and the id the next fresh node gets.
KnownIds == DOMAIN node_indices
HasFreshId == Cardinality(KnownIds) < Len(NodeIds)
FreshId == NodeIds[Cardinality(KnownIds) + 1]

\* dag.add_node(NodeOf(id))
DagAddNode(id) ==
    /\ LET r == add_node(NodeOf(id))
       IN /\ graph_nodes' = r[2]
          /\ node_indices' = r[3]
          /\ contexts' = r[4]
          /\ ret' = [op |-> "add_node", id |-> id, res |-> r[1]]
    /\ UNCHANGED <<walVars, graph_edges, ctxVars, schedVars, subVars, tokenVars, execVars>>

\* dag.add_edge(from, to, edge)
DagAddEdge(from, to, edge, limit) ==
    /\ Len(graph_edges) < limit
    /\ LET r == add_edge(from, to, edge)
       IN /\ graph_edges' = r[2]
          /\ ret' = [op |-> "add_edge", from |-> from, to |-> to, edge |-> edge, res |-> r[1]]
    /\ UNCHANGED <<walVars, graph_nodes, node_indices, contexts, ctxVars, schedVars, subVars, tokenVars, execVars>>

\* The add_edge calls made while building: a chain A->B->C, the edge C->A that
\* closes it, a self-loop, a second edge between the same nodes, edges naming
\* ports the nodes do not have or joining a string output to a tensor input,
\* and endpoints that are not in the DAG ("X" never is).
EdgeInputs ==
    {<<"A", "B", WorkflowEdge("out", "in")>>,
     <<"B", "C", WorkflowEdge("out", "in")>>,
     <<"C", "A", WorkflowEdge("out", "in")>>,
     <<"B", "B", WorkflowEdge("out", "in")>>,
     <<"A", "B", WorkflowEdge("out2", "in2")>>,
     <<"A", "B", WorkflowEdge("nope", "in")>>,
     <<"A", "C", WorkflowEdge("out", "t")>>,
     <<"X", "A", WorkflowEdge("out", "in")>>,
     <<"A", "X", WorkflowEdge("out", "in")>>}

InitDag ==
    /\ now = 0
    /\ ctx = NodeContextNew("n")
    /\ ret = NoCall
    /\ DagEmpty
    /\ SchedulerEmpty
    /\ WalAbsent
    /\ SubAbsent
    /\ ExecAbsent
    /\ TokenAbsent

\* add_node with a fresh id or with one that is already in the DAG.
DagBuildNode ==
    /\ Len(graph_nodes) < MaxGraphNodes
    /\ \E id \in KnownIds \cup (IF HasFreshId THEN {FreshId} ELSE {}) : DagAddNode(id)

DagBuildEdge == \E e \in EdgeInputs : DagAddEdge(e[1], e[2], e[3], MaxEdges)

\* dag.get_dependencies(node_id), with ids of the DAG and one that is not ("X").
DagGetDependencies ==
    \E node_id \in KnownIds \cup {"X"} :
        /\ ret' = [op |-> "get_dependencies", node_id |-> node_id,
                   res |-> get_dependencies(node_id)]
        /\ UNCHANGED <<ctxVars, dagVars, subVars, tokenVars, execVars, schedVars, walVars>>

\* dag.get_dependents(node_id)
DagGetDependents ==
    \E node_id \in KnownIds \cup {"X"} :
        /\ ret' = [op |-> "get_dependents", node_id |-> node_id,
                   res |-> get_dependents(node_id)]
        /\ UNCHANGED <<ctxVars, dagVars, subVars, tokenVars, execVars, schedVars, walVars>>

NextDag == DagBuildNode \/ DagBuildEdge \/ DagGetDependencies \/ DagGetDependents

SpecDag == InitDag /\ [][NextDag]_vars

\* ------------------------------------------------- running a WorkflowDag
RunMaxHist == 3

\* The edge list of the diamond A -> {B, C} -> D, added in this order.
DiamondEdges ==
    <<<<"A", "B", WorkflowEdge("out", "in")>>, <<"A", "C", WorkflowEdge("out", "in")>>,
      <<"B", "D", WorkflowEdge("out", "in")>>, <<"C", "D", WorkflowEdge("out", "in2")>>>>

\* No node has left Pending: the workflow is built before it is run.
NotStarted == \A id \in DOMAIN contexts : contexts[id].transitions = << >>

RunAddNode == NotStarted /\ HasFreshId /\ DagAddNode(FreshId)

RunAddEdge ==
    /\ NotStarted
    /\ Len(graph_edges) < Len(DiamondEdges)
    /\ LET e == DiamondEdges[Len(graph_edges) + 1]
       IN DagAddEdge(e[1], e[2], e[3], Len(DiamondEdges))

\* dag.get_context_mut(id), then transition(to) on the context.
RunTransition ==
    \E id \in DOMAIN contexts, to \in NodeState :
        /\ Len(contexts[id].transitions) < RunMaxHist
        /\ LET r == transition(contexts[id], to, now, now)
           IN /\ contexts' = [contexts EXCEPT ![id] = r[2]]
              /\ ret' = [op |-> "transition", ok |-> r[1].ok]
        /\ UNCHANGED <<walVars, graph_nodes, graph_edges, node_indices, ctxVars, schedVars, subVars, tokenVars, execVars>>

NextRun == RunAddNode \/ RunAddEdge \/ RunTransition

SpecRun == InitDag /\ [][NextRun]_vars

\* A DAG whose nodes run while add_node is called again, with fresh ids and
\* with ids already in the DAG.
NextDup == DagBuildNode \/ RunTransition

SpecDup == InitDag /\ [][NextDup]_vars

\* -------------------------------------------------------------- Scheduler
CapAi == <<"a", "i", ".">>
CapCode == <<"c", "o", "d", "e", ".">>

\* str::starts_with
starts_with(str, prefix) ==
    Len(prefix) <= Len(str) /\ SubSeq(str, 1, Len(prefix)) = prefix

\* ServerInfo (available_memory and gpu_available are carried but never read;
\* current_load is in tenths).
ServerInfo(address, capabilities, load, healthy) ==
    [address |-> address, current_load |-> load, capabilities |-> capabilities,
     loaded_models |-> << >>, healthy |-> healthy]

supports(server, node_type) ==
    \/ server.capabilities = << >>
    \/ \E i \in 1..Len(server.capabilities) : starts_with(node_type, server.capabilities[i])

SchedulingStrategy == {"RoundRobin", "LeastLoaded", "DataAffinity", "SessionAffinity", "Random"}

\* The orders in which a HashMap that iterated in `order` can iterate once key
\* k is inserted: a key already present keeps its slot, a new key can land in
\* any slot.
OrdersAfterInsert(order, k) ==
    IF Contains(order, k) THEN {order}
    ELSE {SubSeq(order, 1, i) \o <<k>> \o SubSeq(order, i + 1, Len(order)) : i \in 0..Len(order)}

\* The iteration order once key k is removed.
OrderAfterRemove(order, k) == SelectSeq(order, LAMBDA a : a # k)

\* servers.values().filter(|s| s.healthy).cloned().collect()
healthy_servers ==
    LET all == [i \in 1..Len(server_order) |-> servers[server_order[i]]]
    IN SelectSeq(all, LAMBDA sv : sv.healthy)

\* Iterator::min_by on current_load: the first of the minimal elements.
MinByLoad(list) ==
    LET i == CHOOSE j \in 1..Len(list) :
                 /\ \A k \in 1..Len(list) : list[j].current_load <= list[k].current_load
                 /\ \A k \in 1..(j - 1) : list[k].current_load > list[j].current_load
    IN list[i]

SchedulingDecision(node_id, target_server, reason) ==
    [node_id |-> node_id, target_server |-> target_server, priority |-> 0,
     affinity_reason |-> reason, estimated_duration_ms |-> None]

\* schedule_node: <<the decision, if any; rr_index after the call>>.
schedule_node(node_id) ==
    IF IsNone(get_node(node_id)) THEN <<None, rr_index>>
    ELSE LET hs == healthy_servers
         IN IF hs = << >> THEN <<None, rr_index>>
            ELSE CASE strategy = "RoundRobin" ->
                        LET idx == rr_index % Len(hs)
                        IN <<Some(SchedulingDecision(node_id, hs[idx + 1].address, None)),
                             (rr_index + 1) % Len(hs)>>
                   [] strategy = "LeastLoaded" ->
                        <<Some(SchedulingDecision(node_id, MinByLoad(hs).address,
                                                  Some("least loaded"))), rr_index>>
                   [] OTHER ->
                        <<Some(SchedulingDecision(node_id, hs[1].address, None)), rr_index>>

\* schedule_next: schedule_node for ready_nodes[0], None when no node is
\* ready. first is ready_nodes[0], if there is one.
schedule_next(first) ==
    IF IsNone(first) THEN <<None, rr_index>> ELSE schedule_node(first[1])

\* schedule_with_affinity: <<the decision, if any; rr_index after the call>>.
schedule_with_affinity(node_id, preferred_server) ==
    IF /\ IsSome(preferred_server)
       /\ preferred_server[1] \in DOMAIN servers
       /\ servers[preferred_server[1]].healthy
    THEN <<Some(SchedulingDecision(node_id, preferred_server[1], Some("user preference"))),
           rr_index>>
    ELSE schedule_node(node_id)

\* ------------------------------------------------- driving the scheduler
SchedMaxNodes == 1

Addresses == {"s1", "s2"}
LoadValues == {0, 5}
Sessions == {"sess"}

\* The ServerInfo values handed to register_server and update_server.
ServerInputs ==
    {ServerInfo(a, c, l, h) : a \in Addresses, c \in {<< >>, <<CapAi>>, <<CapCode>>},
                              l \in LoadValues, h \in BOOLEAN}

\* Scheduler::new(policy).with_strategy(strategy) and an empty DAG.
InitSched ==
    /\ now = 0
    /\ ctx = NodeContextNew("n")
    /\ ret = NoCall
    /\ DagEmpty
    /\ servers = << >>
    /\ server_order = << >>
    /\ strategy \in SchedulingStrategy
    /\ rr_index = 0
    /\ session_affinities = << >>
    /\ retry_policy = RetryPolicyDefault
    /\ registration_order = << >>
    /\ WalAbsent
    /\ SubAbsent
    /\ ExecAbsent
    /\ TokenAbsent

SchedAddNode == Len(graph_nodes) < SchedMaxNodes /\ HasFreshId /\ DagAddNode(FreshId)

\* register_server(server) and update_server(server) have the same body.
SchedRegisterServer ==
    \E server \in ServerInputs, op \in {"register_server", "update_server"} :
        /\ servers' = MapInsert(servers, server.address, server)
        /\ server_order' \in OrdersAfterInsert(server_order, server.address)
        /\ registration_order' = IF Contains(registration_order, server.address)
                                 THEN registration_order
                                 ELSE Append(registration_order, server.address)
        /\ ret' = [op |-> op]
        /\ UNCHANGED <<strategy, rr_index, session_affinities, retry_policy,
                       ctxVars, dagVars, subVars, tokenVars, execVars, walVars>>

SchedUnregisterServer ==
    \E a \in Addresses :
        /\ servers' = [b \in DOMAIN servers \ {a} |-> servers[b]]
        /\ server_order' = OrderAfterRemove(server_order, a)
        /\ registration_order' = OrderAfterRemove(registration_order, a)
        /\ ret' = [op |-> "unregister_server"]
        /\ UNCHANGED <<strategy, rr_index, session_affinities, retry_policy,
                       ctxVars, dagVars, subVars, tokenVars, execVars, walVars>>

\* mark_healthy(address) and mark_unhealthy(address)
SchedMarkHealth ==
    \E a \in Addresses, h \in BOOLEAN :
        /\ servers' = IF a \in DOMAIN servers THEN [servers EXCEPT ![a].healthy = h]
                      ELSE servers
        /\ ret' = [op |-> IF h THEN "mark_healthy" ELSE "mark_unhealthy"]
        /\ UNCHANGED <<server_order, strategy, rr_index, session_affinities, retry_policy,
                       registration_order, ctxVars, dagVars, subVars, tokenVars, execVars, walVars>>

SchedUpdateServerLoad ==
    \E a \in Addresses, l \in LoadValues :
        /\ servers' = IF a \in DOMAIN servers THEN [servers EXCEPT ![a].current_load = l]
                      ELSE servers
        /\ ret' = [op |-> "update_server_load"]
        /\ UNCHANGED <<server_order, strategy, rr_index, session_affinities, retry_policy,
                       registration_order, ctxVars, dagVars, subVars, tokenVars, execVars, walVars>>

\* set_session_affinity(session_id, server)
SchedSetSessionAffinity ==
    \E session_id \in Sessions, server \in Addresses :
        /\ session_affinities' = MapInsert(session_affinities, session_id, server)
        /\ ret' = [op |-> "set_session_affinity"]
        /\ UNCHANGED <<servers, server_order, strategy, rr_index, retry_policy,
                       registration_order, ctxVars, dagVars, subVars, tokenVars, execVars, walVars>>

SchedScheduleNode ==
    \E node_id \in {"A", "B"} :
        LET r == schedule_node(node_id)
        IN /\ rr_index' = r[2]
           /\ ret' = [op |-> "schedule_node", node_id |-> node_id, res |-> r[1]]
           /\ UNCHANGED <<servers, server_order, strategy, session_affinities, retry_policy,
                          registration_order, ctxVars, dagVars, subVars, tokenVars, execVars, walVars>>

SchedScheduleWithAffinity ==
    \E node_id \in {"A", "B"}, preferred_server \in {None} \cup {Some(a) : a \in Addresses} :
        LET r == schedule_with_affinity(node_id, preferred_server)
        IN /\ rr_index' = r[2]
           /\ ret' = [op |-> "schedule_with_affinity", node_id |-> node_id,
                      preferred_server |-> preferred_server, res |-> r[1]]
           /\ UNCHANGED <<servers, server_order, strategy, session_affinities, retry_policy,
                          registration_order, ctxVars, dagVars, subVars, tokenVars, execVars, walVars>>

\* schedule_next(&dag): ready_nodes[0] is any of the ready nodes, as the Vec
\* follows the iteration order of a HashMap.
SchedScheduleNext ==
    \E first \in IF get_ready_nodes = {} THEN {None} ELSE {Some(id) : id \in get_ready_nodes} :
        LET r == schedule_next(first)
        IN /\ rr_index' = r[2]
           /\ ret' = [op |-> "schedule_next", res |-> r[1]]
           /\ UNCHANGED <<servers, server_order, strategy, session_affinities, retry_policy,
                          registration_order, ctxVars, dagVars, subVars, tokenVars, execVars, walVars>>

NextSched ==
    \/ SchedAddNode
    \/ SchedRegisterServer
    \/ SchedUnregisterServer
    \/ SchedMarkHealth
    \/ SchedUpdateServerLoad
    \/ SchedSetSessionAffinity
    \/ SchedScheduleNode
    \/ SchedScheduleWithAffinity
    \/ SchedScheduleNext

SpecSched == InitSched /\ [][NextSched]_vars

\* ------------------------------------------------- driving the backoff
\* The policies a Scheduler is built with; the default one is among them.
PolicyInputs ==
    {RetryPolicy(3, b, m, c) : b \in {0, 1, 1000}, m \in {1, 2}, c \in {0, 3, 30000}}

\* The retry counts asked for: small ones, and both sides of the points where
\* the 32 bits change sign and run out (0x7FFFFFFF, 0x80000000, 0xFFFFFFFE,
\* 0xFFFFFFFF).
RetryCounts ==
    {U32(0, lo) : lo \in {0, 1, 2, 3, 4, 5, 6, 31}}
        \cup {U32(32767, 65535), U32(32768, 0), U32(65535, 65534), U32(65535, 65535)}

\* Scheduler::new(retry_policy)
InitBackoff ==
    /\ now = 0
    /\ ctx = NodeContextNew("n")
    /\ ret = NoCall
    /\ DagEmpty
    /\ servers = << >>
    /\ server_order = << >>
    /\ strategy = "RoundRobin"
    /\ rr_index = 0
    /\ session_affinities = << >>
    /\ retry_policy \in PolicyInputs
    /\ registration_order = << >>
    /\ WalAbsent
    /\ SubAbsent
    /\ ExecAbsent
    /\ TokenAbsent

\* scheduler.calculate_backoff(retry_count)
BackoffCalculate ==
    \E retry_count \in RetryCounts :
        /\ ret' = [op |-> "calculate_backoff", retry_count |-> retry_count,
                   res |-> calculate_backoff(retry_policy, retry_count)]
        /\ UNCHANGED <<ctxVars, dagVars, subVars, tokenVars, execVars, schedVars, walVars>>

\* scheduler.retry_policy()
BackoffGetPolicy ==
    /\ ret' = [op |-> "retry_policy", res |-> retry_policy]
    /\ UNCHANGED <<ctxVars, dagVars, subVars, tokenVars, execVars, schedVars, walVars>>

NextBackoff == BackoffCalculate \/ BackoffGetPolicy

SpecBackoff == InitBackoff /\ [][NextBackoff]_vars

\* ---------------------------------------------------------- WriteAheadLog
\* The bodies of append, append_batch and read_from are todo!() in wal.rs; the
\* operators for them below follow section 4.1 of the specification.  open,
\* initialize, last_sequence and peek_next_sequence follow the code.

EventEnvelopeNew_unnumbered(sequence, event, t) ==
    [sequence |-> 0, event |-> event, created_at |-> t]

\* EventEnvelope::new (the random id is left out)
EventEnvelopeNew(sequence, event, t) ==
    [sequence |-> sequence, event |-> event, created_at |-> t]

initialize_no_increment(rows) ==
    IF rows = {} THEN 0
    ELSE CHOOSE n \in {e.sequence : e \in rows} : \A e \in rows : e.sequence <= n

\* initialize: SELECT COALESCE(MAX(sequence), 0) + 1 FROM events
initialize(rows) ==
    IF rows = {} THEN 1
    ELSE (CHOOSE n \in {e.sequence : e \in rows} : \A e \in rows : e.sequence <= n) + 1

\* u64::saturating_sub
saturating_sub(a, b) == IF a >= b THEN a - b ELSE 0

last_sequence_unshifted == next_sequence

last_sequence == saturating_sub(next_sequence, 1)

peek_next_sequence == next_sequence

\* append_batch(events): the envelopes, numbered from next_sequence on.
BatchEnvelopes(events, t) ==
    [i \in 1..Len(events) |-> EventEnvelopeNew(next_sequence + i - 1, events[i], t)]

RECURSIVE SortBySequence(_)
\* ORDER BY sequence ASC
SortBySequence(rows) ==
    IF rows = {} THEN << >>
    ELSE LET first == CHOOSE e \in rows : \A f \in rows : e.sequence <= f.sequence
         IN <<first>> \o SortBySequence(rows \ {first})

\* read_from(sequence): envelopes with sequence >= the argument, ascending.
read_from(sequence) ==
    SortBySequence({e \in events_table : e.sequence >= sequence})

\* compact(before_sequence), after section 4.1: <<the number of envelopes
\* removed, the rows that stay>>; the envelopes with a smaller sequence go.
compact(before_sequence) ==
    LET old == {e \in events_table : e.sequence < before_sequence}
    IN <<Cardinality(old), events_table \ old>>

\* compact_before(timestamp), after section 4.1: the envelopes created
\* earlier than the timestamp go.
compact_before(before) ==
    LET old == {e \in events_table : e.created_at < before}
    IN <<Cardinality(old), events_table \ old>>

\* --------------------------------------------------- driving the event log
MaxEvents == 5
MaxBatch == 2

\* The writers that share the log, and the event each of them appends.
Writers == {"w1", "w2"}
EventOf(w) == IF w = "w1" THEN "E1" ELSE "E2"

\* The arguments of append_batch when writer w calls it.
Batches(w) == {[i \in 1..n |-> EventOf(w)] : n \in 0..MaxBatch}

\* The arguments of read_from.
ReadArgs == {0, 1, 3}

\* The call before this one was an append that failed.
LastAppendFailed == ret.op \in {"append", "append_batch"} /\ ~ret.ok

\* A database file without rows, and no log open on it.
InitWal ==
    /\ now = 0
    /\ ctx = NodeContextNew("n")
    /\ ret = NoCall
    /\ DagEmpty
    /\ SchedulerEmpty
    /\ WalAbsent
    /\ SubAbsent
    /\ ExecAbsent
    /\ TokenAbsent

\* WriteAheadLog::open(path)
WalOpen ==
    /\ ~wal_open
    /\ wal_open' = TRUE
    /\ next_sequence' = initialize(events_table)
    /\ appends_since_open' = 0
    /\ ret' = [op |-> "open"]
    /\ UNCHANGED <<events_table, append_log, ctxVars, dagVars, subVars, tokenVars, execVars, schedVars>>

\* The WriteAheadLog is dropped.
WalClose ==
    /\ wal_open
    /\ wal_open' = FALSE
    /\ next_sequence' = 0
    /\ ret' = [op |-> "close"]
    /\ UNCHANGED <<events_table, append_log, appends_since_open, ctxVars, dagVars, subVars, tokenVars, execVars, schedVars>>

\* append(event) by one of the writers; &mut self makes the calls exclusive.
WalAppend ==
    \E w \in Writers :
        /\ wal_open
        /\ Len(append_log) < MaxEvents
        /\ LET envelope == EventEnvelopeNew(next_sequence, EventOf(w), now)
           IN /\ events_table' = events_table \cup {envelope}
              /\ append_log' = Append(append_log, [envelope |-> envelope, writer |-> w,
                                                   after_failure |-> LastAppendFailed])
              /\ ret' = [op |-> "append", ok |-> TRUE, res |-> envelope]
        /\ next_sequence' = next_sequence + 1
        /\ appends_since_open' = appends_since_open + 1
        /\ UNCHANGED <<wal_open, ctxVars, dagVars, subVars, tokenVars, execVars, schedVars>>

\* append(event) when the insert fails: Err(WalError::Database), nothing stored.
WalAppendFails ==
    /\ wal_open
    /\ ret' = [op |-> "append", ok |-> FALSE, res |-> "Database"]
    /\ UNCHANGED <<walVars, ctxVars, dagVars, subVars, tokenVars, execVars, schedVars>>

\* append_batch(events): every envelope is stored, or none is.
WalAppendBatch ==
    \E w \in Writers, ok \in BOOLEAN : \E events \in Batches(w) :
        /\ wal_open
        /\ Len(append_log) + Len(events) <= MaxEvents
        /\ IF ok
           THEN LET envelopes == BatchEnvelopes(events, now)
                IN /\ events_table' = events_table \cup {envelopes[i] : i \in 1..Len(events)}
                   /\ append_log' = append_log \o
                        [i \in 1..Len(events) |->
                            [envelope |-> envelopes[i], writer |-> w,
                             after_failure |-> (i = 1 /\ LastAppendFailed)]]
                   /\ next_sequence' = next_sequence + Len(events)
                   /\ appends_since_open' = appends_since_open + Len(events)
                   /\ ret' = [op |-> "append_batch", ok |-> TRUE, res |-> envelopes]
           ELSE /\ ret' = [op |-> "append_batch", ok |-> FALSE, res |-> "Database"]
                /\ UNCHANGED <<events_table, append_log, next_sequence, appends_since_open>>
        /\ UNCHANGED <<wal_open, ctxVars, dagVars, subVars, tokenVars, execVars, schedVars>>

\* read_from(sequence)
WalReadFrom ==
    \E sequence \in ReadArgs :
        /\ wal_open
        /\ ret' = [op |-> "read_from", sequence |-> sequence, res |-> read_from(sequence)]
        /\ UNCHANGED <<walVars, ctxVars, dagVars, subVars, tokenVars, execVars, schedVars>>

\* last_sequence()
WalLastSequence ==
    /\ wal_open
    /\ ret' = [op |-> "last_sequence", res |-> last_sequence]
    /\ UNCHANGED <<walVars, ctxVars, dagVars, subVars, tokenVars, execVars, schedVars>>

\* peek_next_sequence()
WalPeekNextSequence ==
    /\ wal_open
    /\ ret' = [op |-> "peek_next_sequence", res |-> peek_next_sequence]
    /\ UNCHANGED <<walVars, ctxVars, dagVars, subVars, tokenVars, execVars, schedVars>>

NextWal ==
    \/ WalOpen
    \/ WalClose
    \/ WalAppend
    \/ WalAppendFails
    \/ WalAppendBatch
    \/ WalReadFrom
    \/ WalLastSequence
    \/ WalPeekNextSequence

SpecWal == InitWal /\ [][NextWal]_vars

\* The appends of a log that is also compacted.
MaxCompacted == 3

\* compact(before_sequence)
WalCompact ==
    \E before_sequence \in 0..(MaxCompacted + 1) :
        /\ wal_open
        /\ LET r == compact(before_sequence)
           IN /\ events_table' = r[2]
              /\ ret' = [op |-> "compact", before_sequence |-> before_sequence,
                         ok |-> TRUE, res |-> r[1]]
        /\ UNCHANGED <<wal_open, next_sequence, append_log, appends_since_open,
                       ctxVars, dagVars, subVars, tokenVars, execVars, schedVars>>

\* compact_before(timestamp)
WalCompactBefore ==
    \E before \in 0..(MaxTime + 1) :
        /\ wal_open
        /\ LET r == compact_before(before)
           IN /\ events_table' = r[2]
              /\ ret' = [op |-> "compact_before", before |-> before,
                         ok |-> TRUE, res |-> r[1]]
        /\ UNCHANGED <<wal_open, next_sequence, append_log, appends_since_open,
                       ctxVars, dagVars, subVars, tokenVars, execVars, schedVars>>

\* append(event), up to MaxCompacted times.
WalCompactedAppend == Len(append_log) < MaxCompacted /\ WalAppend

\* A log that is appended to, compacted, closed and opened again as time
\* passes.
NextCompact ==
    \/ Tick
    \/ WalOpen
    \/ WalClose
    \/ WalCompactedAppend
    \/ WalCompact
    \/ WalCompactBefore

SpecCompact == InitWal /\ [][NextCompact]_vars

\* ------------------------------------------------------- EventSubscriber
EventSubscriberNew == [last_sequence |-> 0]

from_sequence(sequence) == [last_sequence |-> sequence]

\* A poll that forgets what it returned.
poll_no_advance(sub) == <<read_from(sub.last_sequence + 1), sub>>

\* poll(wal) when read_from answers: the pair <<events returned, subscriber
\* after the call>>.
poll(sub) ==
    LET events == read_from(sub.last_sequence + 1)
    IN <<events,
         IF events # << >>
         THEN [sub EXCEPT !.last_sequence = events[Len(events)].sequence]
         ELSE sub>>

\* The sequences a subscriber is created from.
StartSequences == {1, 2}

\* An open log on a database file without rows, and no subscriber.
InitSub ==
    /\ now = 0
    /\ ctx = NodeContextNew("n")
    /\ ret = NoCall
    /\ DagEmpty
    /\ SchedulerEmpty
    /\ events_table = {}
    /\ wal_open = TRUE
    /\ next_sequence = initialize({})
    /\ append_log = << >>
    /\ appends_since_open = 0
    /\ SubAbsent
    /\ ExecAbsent
    /\ TokenAbsent

\* EventSubscriber::new()
SubNew ==
    /\ subscriber = None
    /\ subscriber' = Some(EventSubscriberNew)
    /\ sub_start' = 0
    /\ ret' = [op |-> "new"]
    /\ UNCHANGED <<delivered, walVars, ctxVars, dagVars, tokenVars, execVars, schedVars>>

\* EventSubscriber::from_sequence(sequence)
SubFromSequence ==
    \E sequence \in StartSequences :
        /\ subscriber = None
        /\ subscriber' = Some(from_sequence(sequence))
        /\ sub_start' = sequence
        /\ ret' = [op |-> "from_sequence"]
        /\ UNCHANGED <<delivered, walVars, ctxVars, dagVars, tokenVars, execVars, schedVars>>

\* subscriber.poll(&wal)
SubPoll ==
    /\ subscriber # None /\ wal_open
    /\ LET r == poll(subscriber[1])
       IN /\ subscriber' = Some(r[2])
          /\ delivered' = delivered \o r[1]
          /\ ret' = [op |-> "poll", ok |-> TRUE, res |-> r[1]]
    /\ UNCHANGED <<sub_start, walVars, ctxVars, dagVars, tokenVars, execVars, schedVars>>

\* subscriber.poll(&wal) when read_from fails: `?` returns the error before
\* last_sequence is touched.
SubPollFails ==
    /\ subscriber # None /\ wal_open
    /\ ret' = [op |-> "poll", ok |-> FALSE, res |-> "Database"]
    /\ UNCHANGED <<subVars, tokenVars, walVars, ctxVars, dagVars, execVars, schedVars>>

NextSub ==
    \/ SubNew
    \/ SubFromSequence
    \/ WalAppend
    \/ SubPoll
    \/ SubPollFails

SpecSub == InitSub /\ [][NextSub]_vars

\* ------------------------------------------------- execution coordinator
\* The driver loop, the callback handlers and cancel_execution have todo!()
\* bodies; they follow section 4.6 of the specification and call the node state
\* machine, get_ready_nodes, schedule_node, calculate_backoff and is_complete
\* of the code.  WorkflowContext.nodes and the contexts of the WorkflowDag are
\* one map here.
WorkflowState == {"Pending", "Running", "Completed", "Failed", "Cancelled"}

\* An is_complete that is content with one finished node.
is_complete_any(cs) == \E id \in DOMAIN cs : is_terminal(cs[id].state)

\* WorkflowContext::is_complete
is_complete(cs) == \A id \in DOMAIN cs : is_terminal(cs[id].state)

\* The nodes of cs whose state is terminal.
TerminalNodes(cs) == {id \in DOMAIN cs : is_terminal(cs[id].state)}

\* WorkflowContext::progress, as the fraction <<numerator, denominator>>:
\* 0.0 for a context with no nodes, else terminal nodes / nodes.
progress(cs) ==
    IF DOMAIN cs = {}
    THEN <<0, 1>>
    ELSE <<Cardinality(TerminalNodes(cs)), Cardinality(DOMAIN cs)>>

AllDone(cs) == \A id \in DOMAIN cs : cs[id].state = "Done"

\* An outcome that calls every finished execution a success.
workflow_outcome_lenient(cs) == "Completed"

\* Termination (a): WorkflowCompleted if every node is Done, else WorkflowFailed.
workflow_outcome(cs) == IF AllDone(cs) THEN "Completed" ELSE "Failed"

\* The Event values the coordinator appends.
NodeEvent(type, node_id, server, delay_ms) ==
    [type |-> type, node_id |-> node_id, server |-> server, delay_ms |-> delay_ms]

WorkflowEvent(type) == NodeEvent(type, "", None, None)

\* The events that end an execution in workflow state ws.
OutcomeEvents(ws) ==
    CASE ws = "Completed" -> <<WorkflowEvent("WorkflowCompleted")>>
      [] ws = "Failed"    -> <<WorkflowEvent("WorkflowFailed")>>
      [] OTHER            -> << >>

\* The workflow state once the node contexts are cs.
terminate(cs, ws) ==
    IF ws = "Running" /\ is_complete(cs) THEN workflow_outcome(cs) ELSE ws

\* A CallbackMessage; the task is the attempt of the node it was started for.
CallbackMessage(kind, node_id, attempt, redelivery) ==
    [kind |-> kind, node_id |-> node_id, attempt |-> attempt, redelivery |-> redelivery]

\* The message is about the task the node is running, or ran last.
IsCurrentTask(msg) ==
    msg.node_id \in DOMAIN contexts /\ contexts[msg.node_id].retry_count = msg.attempt

\* What a handler leaves behind: whether the callback was applied, the node
\* contexts, the events to append, the workflow state, the retry timers and
\* the delays applied.
HandlerResult(accepted, cs, events, ws, timers, delays) ==
    [accepted |-> accepted, contexts |-> cs, events |-> events, workflow_state |-> ws,
     waiting |-> timers, delays_applied |-> delays]

Dropped == HandlerResult(FALSE, contexts, << >>, workflow_state, waiting, delays_applied)

\* handle_progress: NodeProgress, state unchanged.
handle_progress(msg) ==
    IF workflow_state = "Cancelled" \/ ~IsCurrentTask(msg)
       \/ contexts[msg.node_id].state # "Running"
    THEN Dropped
    ELSE HandlerResult(TRUE, contexts, <<NodeEvent("NodeProgress", msg.node_id, None, None)>>,
                       workflow_state, waiting, delays_applied)

\* handle_complete: Running -> Done, NodeCompleted, then the termination test.
handle_complete(msg) ==
    IF workflow_state = "Cancelled" \/ ~IsCurrentTask(msg) THEN Dropped
    ELSE LET r == transition(contexts[msg.node_id], "Done", now, now)
             cs == [contexts EXCEPT ![msg.node_id] = r[2]]
             ws == terminate(cs, workflow_state)
         IN IF ~r[1].ok
            THEN HandlerResult(FALSE, cs, << >>, workflow_state, waiting, delays_applied)
            ELSE HandlerResult(TRUE, cs,
                     <<NodeEvent("NodeCompleted", msg.node_id, None, None)>>
                         \o (IF ws # workflow_state THEN OutcomeEvents(ws) ELSE << >>),
                     ws, waiting, delays_applied)

\* A node has entered Failed with context c1: Failed -> Retrying and a delayed
\* re-enqueue after backoff(retry_count) if can_retry() holds, otherwise the
\* workflow is marked Failed.
after_failure(id, c1) ==
    IF can_retry(c1)
    THEN LET delay == calculate_backoff(retry_policy, U32(0, c1.retry_count))
             r == transition(c1, "Retrying", now, now)
         IN HandlerResult(TRUE, [contexts EXCEPT ![id] = r[2]],
                <<NodeEvent("NodeFailed", id, None, None),
                  NodeEvent("NodeRetrying", id, None, Some(delay))>>,
                workflow_state, waiting \cup {id},
                Append(delays_applied, [node_id |-> id, delay_ms |-> delay]))
    ELSE LET cs == [contexts EXCEPT ![id] = c1]
             ws == IF workflow_state # "Running" THEN workflow_state
                   ELSE IF is_complete(cs) THEN workflow_outcome(cs) ELSE "Failed"
         IN HandlerResult(TRUE, cs,
                <<NodeEvent("NodeFailed", id, None, None)>>
                    \o (IF ws # workflow_state THEN OutcomeEvents(ws) ELSE << >>),
                ws, waiting, delays_applied)

\* handle_failed: Running -> Failed through NodeContext::fail, then the retry
\* decision.
handle_failed(msg) ==
    IF workflow_state = "Cancelled" \/ ~IsCurrentTask(msg) THEN Dropped
    ELSE LET r == fail(contexts[msg.node_id], "error", now, now)
         IN IF contexts[msg.node_id].state # "Running" \/ ~r[1].ok
            THEN Dropped
            ELSE after_failure(msg.node_id, r[2])

\* handle_callback
handle_callback(msg) ==
    CASE msg.kind = "Progress" -> handle_progress(msg)
      [] msg.kind = "Complete" -> handle_complete(msg)
      [] msg.kind = "Failed"   -> handle_failed(msg)

\* cancel_execution: every node that is not terminal goes to Cancelled.
cancel_nodes ==
    [id \in DOMAIN contexts |->
        IF is_terminal(contexts[id].state) THEN contexts[id]
        ELSE transition_with_reason(contexts[id], "Cancelled", Some("cancelled"), now, now)[2]]

\* ----------------------------------------------- driving the coordinator
MaxFailures == 4
MaxProgress == 1

\* The retry policy of the retry scenario.
ExecRetryPolicy == RetryPolicy(3, 10, 2, 30000)

EdgeBetween(from, to) == [source |-> from, target |-> to, weight |-> WorkflowEdge("out", "in")]

\* The workflows executed: the chain A -> B -> C and the join A -> C <- B; each
\* is <<number of nodes, edges>>.
Workflows ==
    {<<3, <<EdgeBetween(1, 2), EdgeBetween(2, 3)>>>>,
     <<3, <<EdgeBetween(1, 3), EdgeBetween(2, 3)>>>>}

IsChain == Len(graph_nodes) = 3 /\ graph_edges = <<EdgeBetween(1, 2), EdgeBetween(2, 3)>>
IsJoin == Len(graph_nodes) = 3 /\ graph_edges = <<EdgeBetween(1, 3), EdgeBetween(2, 3)>>

\* The nodes whose dispatches and tasks can fail: the last node of the chain.
FailingNodes == IF IsChain THEN {"C"} ELSE {}

\* The events of the log, in sequence order.
LogEvents == [i \in 1..Len(append_log) |-> append_log[i].envelope.event]

CountEvents(type) == Cardinality({i \in 1..Len(append_log) : LogEvents[i].type = type})

\* The failures servers have reported or the coordinator has recorded.
FailuresSoFar ==
    CountEvents("NodeFailed")
        + Cardinality({m \in callbacks : m.kind = "Failed" /\ ~m.redelivery})

\* append_batch(events) by the coordinator.
LogAppend(events) ==
    LET envelopes == BatchEnvelopes(events, now)
    IN /\ events_table' = events_table \cup {envelopes[i] : i \in 1..Len(events)}
       /\ append_log' = append_log \o
            [i \in 1..Len(events) |->
                [envelope |-> envelopes[i], writer |-> "coordinator", after_failure |-> FALSE]]
       /\ next_sequence' = next_sequence + Len(events)
       /\ appends_since_open' = appends_since_open + Len(events)
       /\ UNCHANGED wal_open

\* A workflow built with add_node and add_edge, two healthy servers that take
\* every node type, an open log without rows, and the execution not started.
InitExec ==
    /\ now = 0
    /\ ctx = NodeContextNew("n")
    /\ ret = NoCall
    /\ \E w \in Workflows :
        /\ graph_nodes = [i \in 1..w[1] |-> NodeOf(NodeIds[i])]
        /\ graph_edges = w[2]
        /\ node_indices = [id \in {NodeIds[i] : i \in 1..w[1]} |->
                              CHOOSE i \in 1..w[1] : NodeIds[i] = id]
        /\ contexts = [id \in {NodeIds[i] : i \in 1..w[1]} |-> NodeContextNew(id)]
    /\ servers = [a \in Addresses |-> ServerInfo(a, << >>, 0, TRUE)]
    /\ server_order = <<"s1", "s2">>
    /\ registration_order = <<"s1", "s2">>
    /\ strategy = "RoundRobin"
    /\ rr_index = 0
    /\ session_affinities = << >>
    /\ retry_policy = ExecRetryPolicy
    /\ events_table = {}
    /\ wal_open = TRUE
    /\ next_sequence = initialize({})
    /\ append_log = << >>
    /\ appends_since_open = 0
    /\ SubAbsent
    /\ ExecAbsent
    /\ TokenAbsent

ExecUnchanged == UNCHANGED <<ctxVars, graph_nodes, graph_edges, node_indices, subVars, tokenVars,
                             servers, server_order, strategy, session_affinities,
                             retry_policy, registration_order>>

\* execute_workflow: the execution starts.
ExecStart ==
    /\ workflow_state = "Pending"
    /\ workflow_state' = "Running"
    /\ LogAppend(<<WorkflowEvent("WorkflowStarted")>>)
    /\ ret' = [op |-> "execute_workflow"]
    /\ ExecUnchanged
    /\ UNCHANGED <<contexts, rr_index, callbacks, waiting, delays_applied>>

\* Steps 1 and 2 of the driver loop for one ready node: a placement from the
\* scheduler, Pending|Retrying -> Scheduled, NodeScheduled.
ExecSchedule ==
    \E id \in get_ready_nodes \ waiting :
        LET d == schedule_node(id)
            r == transition(contexts[id], "Scheduled", now, now)
        IN /\ workflow_state = "Running"
           /\ IsSome(d[1]) /\ r[1].ok
           /\ rr_index' = d[2]
           /\ contexts' = [contexts EXCEPT
                              ![id] = [r[2] EXCEPT !.server = Some(d[1][1].target_server)]]
           /\ LogAppend(<<NodeEvent("NodeScheduled", id, Some(d[1][1].target_server), None)>>)
           /\ ret' = [op |-> "schedule", node_id |-> id]
           /\ ExecUnchanged
           /\ UNCHANGED execVars

\* Step 3, the server answers 2xx: Scheduled -> Running, NodeStarted.
ExecDispatch ==
    \E id \in DOMAIN contexts :
        LET r == transition(contexts[id], "Running", now, now)
        IN /\ workflow_state = "Running"
           /\ contexts[id].state = "Scheduled" /\ r[1].ok
           /\ contexts' = [contexts EXCEPT ![id] = r[2]]
           /\ LogAppend(<<NodeEvent("NodeStarted", id, None, None)>>)
           /\ ret' = [op |-> "dispatch", node_id |-> id, status |-> "2xx"]
           /\ ExecUnchanged
           /\ UNCHANGED <<rr_index, execVars>>

\* Step 3, the server answers 4xx: the return to Pending is asked of the node
\* state machine.
ExecDispatchRejected ==
    \E id \in DOMAIN contexts :
        LET r == transition(contexts[id], "Pending", now, now)
        IN /\ workflow_state = "Running"
           /\ contexts[id].state = "Scheduled"
           /\ contexts' = [contexts EXCEPT ![id] = r[2]]
           /\ ret' = [op |-> "dispatch", node_id |-> id, status |-> "4xx", ok |-> r[1].ok]
           /\ ExecUnchanged
           /\ UNCHANGED <<rr_index, execVars, walVars>>

\* Step 3, the server answers 5xx or cannot be reached: Scheduled -> Failed,
\* then the retry decision.
ExecDispatchFails ==
    \E id \in DOMAIN contexts \cap FailingNodes :
        LET r == fail(contexts[id], "error", now, now)
            h == after_failure(id, r[2])
        IN /\ workflow_state = "Running"
           /\ contexts[id].state = "Scheduled" /\ r[1].ok
           /\ FailuresSoFar < MaxFailures
           /\ contexts' = h.contexts
           /\ workflow_state' = h.workflow_state
           /\ waiting' = h.waiting
           /\ delays_applied' = h.delays_applied
           /\ LogAppend(h.events)
           /\ ret' = [op |-> "dispatch", node_id |-> id, status |-> "5xx"]
           /\ ExecUnchanged
           /\ UNCHANGED <<rr_index, callbacks>>

\* The server reports on the task a node is running.
ServerReports(kind, nodes) ==
    \E id \in DOMAIN contexts \cap nodes :
        LET msg == CallbackMessage(kind, id, contexts[id].retry_count, FALSE)
        IN /\ contexts[id].state = "Running"
           /\ ~\E m \in callbacks : m.node_id = id /\ m.attempt = msg.attempt
                                    /\ m.kind \in {kind, "Complete", "Failed"}
           /\ callbacks' = callbacks \cup {msg}
           /\ ret' = [op |-> "report", kind |-> kind, node_id |-> id]
           /\ ExecUnchanged
           /\ UNCHANGED <<contexts, rr_index, workflow_state, waiting, delays_applied, walVars>>

ServerProgress ==
    /\ CountEvents("NodeProgress")
         + Cardinality({m \in callbacks : m.kind = "Progress"}) < MaxProgress
    /\ ServerReports("Progress", DOMAIN contexts)

ServerComplete == ServerReports("Complete", DOMAIN contexts)

ServerFailed == FailuresSoFar < MaxFailures /\ ServerReports("Failed", FailingNodes)

\* POST /callback: a message is delivered to handle_callback; a message
\* delivered for the first time may be delivered once more later (one such
\* repeat is outstanding at a time).
ExecCallback ==
    \E msg \in callbacks, again \in BOOLEAN :
        LET h == handle_callback(msg)
        IN /\ again => ~\E m \in callbacks : m.redelivery
           /\ callbacks' = (callbacks \ {msg})
                \cup (IF again THEN {[msg EXCEPT !.redelivery = TRUE]} ELSE {})
           /\ contexts' = h.contexts
           /\ workflow_state' = h.workflow_state
           /\ waiting' = h.waiting
           /\ delays_applied' = h.delays_applied
           /\ LogAppend(h.events)
           /\ ret' = [op |-> "callback", msg |-> msg, accepted |-> h.accepted]
           /\ ExecUnchanged
           /\ UNCHANGED rr_index

\* The retry-delay timer of a node fires: the node is enqueued again.
ExecRetryTimer ==
    \E id \in waiting :
        /\ waiting' = waiting \ {id}
        /\ ret' = [op |-> "timer", node_id |-> id]
        /\ ExecUnchanged
        /\ UNCHANGED <<contexts, rr_index, workflow_state, callbacks, delays_applied, walVars>>

\* cancel_execution: an external cancellation arrives.
ExecCancel ==
    /\ workflow_state \in {"Pending", "Running"}
    /\ contexts' = cancel_nodes
    /\ workflow_state' = "Cancelled"
    /\ waiting' = {}
    /\ LogAppend(<<WorkflowEvent("WorkflowCancelled")>>)
    /\ ret' = [op |-> "cancel_execution"]
    /\ ExecUnchanged
    /\ UNCHANGED <<rr_index, callbacks, delays_applied>>

NextExec ==
    \/ ExecStart
    \/ ExecSchedule
    \/ ExecDispatch
    \/ ExecDispatchRejected
    \/ ExecDispatchFails
    \/ ServerProgress
    \/ ServerComplete
    \/ ServerFailed
    \/ ExecCallback
    \/ ExecRetryTimer
    \/ ExecCancel

SpecExec == InitExec /\ [][NextExec]_vars

\* An execution in which no dispatch is refused, every task reports Complete
\* and nobody cancels; each step that stays possible is taken in the end.
NextExecLive ==
    \/ ExecStart
    \/ ExecSchedule
    \/ ExecDispatch
    \/ ServerProgress
    \/ ServerComplete
    \/ ExecCallback

SpecExecLive ==
    /\ InitExec
    /\ [][NextExecLive]_vars
    /\ WF_vars(ExecStart)
    /\ WF_vars(ExecSchedule)
    /\ WF_vars(ExecDispatch)
    /\ WF_vars(ServerComplete)
    /\ WF_vars(ExecCallback)

\* ------------------------------------------------------------ AccessToken
\* AccessToken::new and verify have todo!() bodies; they follow sections 3.3
\* and 4.3 of the specification, with the signature an HMAC over the token
\* fields.  is_expired and the permission tests follow the code.
Permissions(read, write, delete) == [read |-> read, write |-> write, delete |-> delete]

read_only == Permissions(TRUE, FALSE, FALSE)
read_write == Permissions(TRUE, TRUE, FALSE)
full == Permissions(TRUE, TRUE, TRUE)
none == Permissions(FALSE, FALSE, FALSE)

\* The signature of the token fields under the cluster secret.
Sign(data_uuid, issued_by, issued_at, expires_at, permissions) ==
    <<data_uuid, issued_by, issued_at, expires_at, permissions>>

\* AccessToken::new at time t.
AccessTokenNew(data_uuid, issued_by, ttl, permissions, t) ==
    [data_uuid |-> data_uuid, issued_by |-> issued_by, issued_at |-> t,
     expires_at |-> t + ttl, permissions |-> permissions,
     signature |-> Sign(data_uuid, issued_by, t, t + ttl, permissions)]

\* An is_expired with the comparison turned round.
is_expired_reversed(tok, t) == t < tok.expires_at

\* is_expired at time t: Utc::now() > self.expires_at
is_expired(tok, t) == t > tok.expires_at

\* verify at time t: the signature, then the expiry.
verify(tok, t) ==
    IF tok.signature # Sign(tok.data_uuid, tok.issued_by, tok.issued_at, tok.expires_at,
                            tok.permissions)
    THEN "InvalidSignature"
    ELSE IF is_expired(tok, t) THEN "Expired"
    ELSE "Ok"

\* can_read, can_write, can_delete
can(tok, action) ==
    CASE action = "read"   -> tok.permissions.read
      [] action = "write"  -> tok.permissions.write
      [] action = "delete" -> tok.permissions.delete

\* The time-to-live values tokens are issued with.
Ttls == {-1, 0, 1}

DataActions == {"read", "write", "delete"}

InitToken ==
    /\ now = 0
    /\ ctx = NodeContextNew("n")
    /\ ret = NoCall
    /\ DagEmpty
    /\ SchedulerEmpty
    /\ WalAbsent
    /\ SubAbsent
    /\ ExecAbsent
    /\ TokenAbsent

TokenUnchanged == UNCHANGED <<ctx, dagVars, schedVars, walVars, subVars, execVars>>

\* AccessToken::new(data_uuid, issued_by, ttl, permissions)
TokenNew ==
    \E ttl \in Ttls, permissions \in {read_only, read_write, full, none} :
        /\ token = None
        /\ token' = Some(AccessTokenNew("d", "client", ttl, permissions, now))
        /\ ret' = [op |-> "new", ttl |-> ttl]
        /\ UNCHANGED now
        /\ TokenUnchanged

\* The holder alters a public field of the token it presents: a later expiry,
\* or every permission.
TokenAltered ==
    /\ token # None
    /\ token[1].signature = Sign(token[1].data_uuid, token[1].issued_by, token[1].issued_at,
                                 token[1].expires_at, token[1].permissions)
    /\ \/ token' = Some([token[1] EXCEPT !.expires_at = MaxTime + 1])
       \/ token' = Some([token[1] EXCEPT !.permissions = full])
    /\ token' # token
    /\ ret' = [op |-> "altered"]
    /\ UNCHANGED now
    /\ TokenUnchanged

\* token.is_expired()
TokenIsExpired ==
    /\ token # None
    /\ ret' = [op |-> "is_expired", res |-> is_expired(token[1], now)]
    /\ UNCHANGED <<now, token>>
    /\ TokenUnchanged

\* token.verify()
TokenVerify ==
    /\ token # None
    /\ ret' = [op |-> "verify", res |-> verify(token[1], now)]
    /\ UNCHANGED <<now, token>>
    /\ TokenUnchanged

\* The token is presented on the pull path for an action on the data: the
\* source server verifies it and tests the permission bit.
TokenPresented ==
    \E action \in DataActions :
        /\ token # None
        /\ ret' = [op |-> "present", action |-> action,
                   accepted |-> (verify(token[1], now) = "Ok" /\ can(token[1], action))]
        /\ UNCHANGED <<now, token>>
        /\ TokenUnchanged

\* Time passes.
TokenTick ==
    /\ now < MaxTime
    /\ now' = now + 1
    /\ UNCHANGED <<ctx, ret, token, dagVars, schedVars, walVars, subVars, execVars>>

NextToken ==
    \/ TokenNew
    \/ TokenAltered
    \/ TokenIsExpired
    \/ TokenVerify
    \/ TokenPresented
    \/ TokenTick

SpecToken == InitToken /\ [][NextToken]_vars

\* ================================================================ claims
\* The legal edges of the node state machine as section 4.4 lists them.
LegalEdges ==
    {<<"Pending", "Scheduled">>, <<"Pending", "Cancelled">>,
     <<"Scheduled", "Running">>, <<"Scheduled", "Failed">>, <<"Scheduled", "Cancelled">>,
     <<"Running", "Done">>, <<"Running", "Failed">>, <<"Running", "Cancelled">>,
     <<"Failed", "Retrying">>, <<"Failed", "Cancelled">>,
     <<"Retrying", "Scheduled">>, <<"Retrying", "Cancelled">>}

\* The step is a call of ctx.transition(ret'.arg).
IsTransitionCall == ret'.op = "transition" /\ <<ctx, ret>>' # <<ctx, ret>>

\* The step appended to the history of ctx.
HistoryGrew == Len(ctx'.transitions) = Len(ctx.transitions) + 1

C2_InvalidTransitionNoEffect ==
    [][(IsTransitionCall /\ <<ctx.state, ret'.arg>> \notin LegalEdges) =>
        /\ ret'.res = [ok |-> FALSE, err |-> "InvalidTransition",
                       from |-> ctx.state, to |-> ret'.arg]
        /\ ctx' = ctx]_vars

C2_Witness ==
    /\ ret.op = "transition" /\ ret.arg = "Done"
    /\ ret.res = [ok |-> FALSE, err |-> "InvalidTransition", from |-> "Pending", to |-> "Done"]
    /\ ctx.state = "Pending" /\ ctx.transitions = << >>

\* C3: the transition history is a chain of legal edges that starts at Pending
\* and ends at the current state.
C3_HistoryIsLegalChain ==
    LET h == ctx.transitions
    IN /\ h = << >> => ctx.state = "Pending"
       /\ h # << >> => h[1].from = "Pending" /\ h[Len(h)].to = ctx.state
       /\ \A i \in 1..Len(h) : <<h[i].from, h[i].to>> \in LegalEdges
       /\ \A i \in 1..(Len(h) - 1) : h[i].to = h[i + 1].from

C3_Witness ==
    /\ Len(ctx.transitions) = 5
    /\ ctx.state = "Scheduled"
    /\ ctx.transitions[4].to = "Retrying"
    /\ ctx.transitions[3].reason = Some("boom")

CountRetrying(h) == Cardinality({i \in 1..Len(h) : h[i].to = "Retrying"})

\* C4: entering Running sets started_at only when it is unset; entering Done,
\* Failed or Cancelled sets completed_at to the time of the call; entering
\* Retrying adds one to retry_count and nothing else changes it, so retry_count
\* is the number of history entries that enter Retrying.
C4_TimingAndRetryCount ==
    /\ [](ctx.retry_count = CountRetrying(ctx.transitions))
    /\ [][IF HistoryGrew
          THEN LET to == ctx'.transitions[Len(ctx'.transitions)].to
               IN /\ to = "Running" =>
                       IF IsNone(ctx.started_at)
                       THEN ctx'.started_at \in {Some(now), Some(now')}
                       ELSE ctx'.started_at = ctx.started_at
                  /\ to # "Running" => ctx'.started_at = ctx.started_at
                  /\ to \in {"Done", "Failed", "Cancelled"} =>
                       ctx'.completed_at \in {Some(now), Some(now')}
                  /\ to \notin {"Done", "Failed", "Cancelled"} =>
                       ctx'.completed_at = ctx.completed_at
                  /\ ctx'.retry_count =
                       IF to = "Retrying" THEN ctx.retry_count + 1 ELSE ctx.retry_count
          ELSE ctx'.retry_count = ctx.retry_count]_vars

C4_Witness ==
    /\ ctx.state = "Running"
    /\ ctx.retry_count = 1
    /\ IsSome(ctx.started_at)
    /\ ctx.started_at[1] < ctx.transitions[Len(ctx.transitions)].timestamp

\* C5: can_retry() answers true exactly when the node is Failed and has
\* retries left.
C5_CanRetryIff ==
    ret.op = "can_retry" =>
        (ret.res = TRUE <=> (ctx.state = "Failed" /\ ctx.retry_count < ctx.max_retries))

C5_Witness ==
    /\ ret.op = "can_retry" /\ ret.res = FALSE
    /\ ctx.state = "Failed"
    /\ ctx.retry_count = 1 /\ ctx.max_retries = 1

\* ---------------------------------------------------------------- the DAG
\* The ids of the nodes the graph holds.
GraphNodeIds == {graph_nodes[i].id : i \in 1..Len(graph_nodes)}

\* The step is a call of dag.add_edge(ret'.from, ret'.to, ret'.edge).
IsAddEdgeCall == ret'.op = "add_edge" /\ <<ret, graph_edges>>' # <<ret, graph_edges>>

\* C7: add_edge returns NodeNotFound when either endpoint is not a node of the
\* DAG, and then nodes, edges and contexts are what they were.
C7_AddEdgeUnknownEndpoint ==
    [][(IsAddEdgeCall /\ (ret'.from \notin GraphNodeIds \/ ret'.to \notin GraphNodeIds)) =>
        /\ ~ret'.res.ok
        /\ ret'.res.err = "NodeNotFound"
        /\ ret'.res.id \in {ret'.from, ret'.to} \ GraphNodeIds
        /\ UNCHANGED dagVars]_vars

C7_Witness ==
    /\ ret.op = "add_edge" /\ ret.to = "X" /\ ret.from \in GraphNodeIds
    /\ ret.res = [ok |-> FALSE, err |-> "NodeNotFound", id |-> "X"]
    /\ Len(graph_edges) = 2

\* The pairs <<u, v>> of graph indices joined by a path of at least one edge.
EdgePairs == {<<graph_edges[k].source, graph_edges[k].target>> : k \in 1..Len(graph_edges)}

PathPairs ==
    LET N == Len(graph_nodes)
        R[k \in 0..N] ==
            IF k = 0 THEN EdgePairs
            ELSE R[k - 1] \cup
                 {<<x[1][1], x[2][2]>> : x \in {y \in R[k - 1] \X EdgePairs : y[1][2] = y[2][1]}}
    IN R[N]

Acyclic == \A i \in 1..Len(graph_nodes) : <<i, i>> \notin PathPairs

\* C8: the graph stays acyclic under any sequence of add_node and add_edge
\* calls (an add_edge that would close a cycle is refused with CycleDetected).
C8_GraphStaysAcyclic == Acyclic

\* The port called name in a port list, if there is one.
PortsNamed(ports, name) == {ports[i] : i \in {j \in 1..Len(ports) : ports[j].name = name}}

\* The edge joins an output port of its source to an input port of its target
\* that carries the same data type.
EdgeIsValid(e) ==
    \E o \in PortsNamed(graph_nodes[e.source].outputs, e.weight.source_output),
       i \in PortsNamed(graph_nodes[e.target].inputs, e.weight.target_input) :
        o.dtype = i.dtype

\* C9: add_edge refuses, with InvalidEdge, an edge whose source_output is no
\* output port of the source, whose target_input is no input port of the
\* target, or whose ports' data types are incompatible; so the graph never
\* holds such an edge.
C9_NoInvalidEdge == \A k \in 1..Len(graph_edges) : EdgeIsValid(graph_edges[k])

\* The nodes that are schedulable and whose incoming edges all come from
\* nodes that are Done.
ExpectedReady ==
    {id \in GraphNodeIds :
        /\ contexts[id].state \in {"Pending", "Retrying"}
        /\ \A k \in 1..Len(graph_edges) :
              graph_edges[k].target = node_indices[id] =>
                  contexts[graph_nodes[graph_edges[k].source].id].state = "Done"}

\* The DAG is the diamond A -> {B, C} -> D.
IsDiamond ==
    /\ [i \in 1..Len(graph_nodes) |-> graph_nodes[i].id] = <<"A", "B", "C", "D">>
    /\ EdgePairs = {<<1, 2>>, <<1, 3>>, <<2, 4>>, <<3, 4>>}

Candidates(node_type) ==
    {a \in DOMAIN servers : servers[a].healthy /\ supports(servers[a], node_type)}

\* C10: schedule_node returns None when no registered server is both healthy
\* and capable of the node's type; a decision it returns names the requested
\* node, priority 0 and a registered, healthy server that supports the type.
C10_ScheduleNodeHealthyAndCapable ==
    (ret.op = "schedule_node" /\ IsSome(get_node(ret.node_id))) =>
        LET cands == Candidates(get_node(ret.node_id)[1].node_type)
        IN /\ cands = {} => ret.res = None
           /\ IsSome(ret.res) =>
                /\ ret.res[1].target_server \in cands
                /\ ret.res[1].node_id = ret.node_id
                /\ ret.res[1].priority = 0

\* The healthy servers that support node_type, in the order they were registered.
CandidatesInRegistrationOrder(node_type) ==
    SelectSeq(registration_order,
              LAMBDA a : servers[a].healthy /\ supports(servers[a], node_type))

\* The type of a node of the DAG.
TypeOf(node_id) == get_node(node_id)[1].node_type

\* C11: under RoundRobin a schedule_node call for a node of the DAG selects
\* the candidate at the cursor in the list of healthy-and-capable servers
\* taken in registration order, and advances the cursor by one modulo the
\* number of candidates (so s1, s2 registered in that order serve s1, s2, s1).
C11_RoundRobinRegistrationOrder ==
    [][(/\ ret'.op = "schedule_node"
        /\ strategy = "RoundRobin"
        /\ IsSome(get_node(ret'.node_id))
        /\ CandidatesInRegistrationOrder(TypeOf(ret'.node_id)) # << >>)
       => LET cands == CandidatesInRegistrationOrder(TypeOf(ret'.node_id))
          IN /\ IsSome(ret'.res)
             /\ ret'.res[1].target_server = cands[(rr_index % Len(cands)) + 1]
             /\ rr_index' = (rr_index + 1) % Len(cands)]_vars

\* C12: register_server, update_server and unregister_server leave the
\* round-robin cursor at 0.
C12_RegistryChangeResetsCursor ==
    [][ret'.op \in {"register_server", "update_server", "unregister_server"}
       => rr_index' = 0]_vars

\* The position of an address in ascending address order.
AddressRank(a) == CASE a = "s1" -> 1 [] a = "s2" -> 2

\* C13: under LeastLoaded the server schedule_node selects is healthy and
\* capable, no candidate has a smaller load, and no candidate of the same
\* load has a smaller address.
C13_LeastLoadedSmallestAddress ==
    (/\ ret.op = "schedule_node"
     /\ strategy = "LeastLoaded"
     /\ IsSome(get_node(ret.node_id))
     /\ Candidates(TypeOf(ret.node_id)) # {})
    => /\ IsSome(ret.res)
       /\ LET cands == Candidates(TypeOf(ret.node_id))
              t == ret.res[1].target_server
          IN /\ t \in cands
             /\ \A a \in cands :
                    \/ servers[t].current_load < servers[a].current_load
                    \/ /\ servers[t].current_load = servers[a].current_load
                       /\ AddressRank(t) <= AddressRank(a)

\* C14: under SessionAffinity, when the session has an entry in
\* session_affinities naming a healthy and capable server, schedule_node
\* returns that server with affinity_reason "session affinity".
C14_SessionAffinityPreferred ==
    (/\ ret.op = "schedule_node"
     /\ strategy = "SessionAffinity"
     /\ IsSome(get_node(ret.node_id))
     /\ "sess" \in DOMAIN session_affinities
     /\ session_affinities["sess"] \in Candidates(TypeOf(ret.node_id)))
    => /\ IsSome(ret.res)
       /\ ret.res[1].target_server = session_affinities["sess"]
       /\ ret.res[1].affinity_reason = Some("session affinity")

\* C15: for a node of the DAG, schedule_with_affinity returns the preferred
\* server with reason "user preference", leaving the cursor alone, exactly
\* when the preferred server is given, registered, healthy and capable of the
\* node's type; in every other case it returns, and does to the cursor, what
\* schedule_node does from the same state.
C15_AffinityExactlyWhenCapable ==
    [][(ret'.op = "schedule_with_affinity" /\ IsSome(get_node(ret'.node_id)))
       => LET node_id == ret'.node_id
              pref == ret'.preferred_server
              preferred_ok == /\ IsSome(pref)
                              /\ pref[1] \in Candidates(TypeOf(node_id))
          IN IF preferred_ok
             THEN /\ ret'.res = Some(SchedulingDecision(node_id, pref[1],
                                                        Some("user preference")))
                  /\ rr_index' = rr_index
             ELSE /\ ret'.res = schedule_node(node_id)[1]
                  /\ rr_index' = schedule_node(node_id)[2]]_vars

\* backoff_ms * multiplier^retry_count capped at max_backoff_ms, over the
\* naturals: with a multiplier of 2 or more, 64 factors exceed every cap.
BackoffFormula(policy, k) ==
    LET n == IF k.hi > 0 THEN 64 ELSE Min(k.lo, 64)
    IN Min(TimesPow(policy.backoff_ms, policy.backoff_multiplier, n, policy.max_backoff_ms),
           policy.max_backoff_ms)

\* C16: calculate_backoff(retry_count) is min(backoff_ms * multiplier^retry_count,
\* max_backoff_ms) for every retry_count; with the default policy that is 1000,
\* 2000, 4000 for 0, 1, 2 and 30000 from 5 on.
C16_BackoffFormula ==
    ret.op = "calculate_backoff" =>
        /\ ret.res = BackoffFormula(retry_policy, ret.retry_count)
        /\ retry_policy = RetryPolicyDefault =>
             /\ ret.retry_count = U32(0, 0) => ret.res = 1000
             /\ ret.retry_count = U32(0, 1) => ret.res = 2000
             /\ ret.retry_count = U32(0, 2) => ret.res = 4000
             /\ (ret.retry_count.hi > 0 \/ ret.retry_count.lo >= 5) => ret.res = 30000

\* k <= k2 as 32-bit unsigned numbers.
U32Leq(k, k2) == k.hi < k2.hi \/ (k.hi = k2.hi /\ k.lo <= k2.lo)

\* C17: calculate_backoff never exceeds max_backoff_ms and never decreases as
\* retry_count grows over the whole u32 range.
C17_BackoffMonotoneAndCapped ==
    ret.op = "calculate_backoff" =>
        /\ ret.res <= retry_policy.max_backoff_ms
        /\ \A k \in RetryCounts :
               U32Leq(k, ret.retry_count) => calculate_backoff(retry_policy, k) <= ret.res

\* The largest sequence among the stored rows, 0 when there is none.
MaxStoredSequence ==
    IF events_table = {} THEN 0
    ELSE CHOOSE n \in {e.sequence : e \in events_table} :
             \A e \in events_table : e.sequence <= n

IdsAddedOnce == Len(graph_nodes) = Cardinality(DOMAIN node_indices)

\* There is an edge from the node with id u to the node with id v.
HasEdge(u, v) ==
    \E k \in 1..Len(graph_edges) :
        /\ graph_nodes[graph_edges[k].source].id = u
        /\ graph_nodes[graph_edges[k].target].id = v

\* A list without repeated elements.
NoRepeats(list) == \A i, j \in 1..Len(list) : list[i] = list[j] => i = j

\* C30: in a DAG whose ids were each added once, get_dependencies(v) lists
\* exactly the ids u with an edge u -> v and get_dependents(u) exactly the ids
\* v with an edge u -> v, each id once however many edges join the two nodes;
\* both are empty for an id that is not in the DAG.
C30_DependenciesDualOnce ==
    IdsAddedOnce =>
        /\ ret.op = "get_dependencies" =>
             /\ \A u \in GraphNodeIds : Contains(ret.res, u) <=> HasEdge(u, ret.node_id)
             /\ NoRepeats(ret.res)
             /\ ret.node_id \notin DOMAIN node_indices => ret.res = << >>
        /\ ret.op = "get_dependents" =>
             /\ \A v \in GraphNodeIds : Contains(ret.res, v) <=> HasEdge(ret.node_id, v)
             /\ NoRepeats(ret.res)
             /\ ret.node_id \notin DOMAIN node_indices => ret.res = << >>

\* C27: the return of a placed (Scheduled) node to Pending, made on a 4xx
\* answer to its dispatch, is a legal transition: transition(Pending) succeeds,
\* the node is Pending afterwards and the step Scheduled -> Pending is the last
\* entry of its history.
C27_RejectedPlacementReturnsToPending ==
    [][(IsTransitionCall /\ ctx.state = "Scheduled" /\ ret'.arg = "Pending") =>
        /\ ret'.res.ok
        /\ ctx'.state = "Pending"
        /\ HistoryGrew
        /\ LET h == ctx'.transitions
           IN h[Len(h)].from = "Scheduled" /\ h[Len(h)].to = "Pending"]_vars

\* The envelopes stored with a sequence above n.
StoredAbove(n) == {e \in events_table : e.sequence > n}

\* The step is a call of subscriber.poll.
IsPollCall == ret'.op = "poll" /\ subscriber # None

IsCallbackStep == ret'.op = "callback" /\ callbacks' # callbacks

\* How many events of a type the log holds for a node.
CountNodeEvents(type, id) ==
    Cardinality({i \in 1..Len(append_log) :
                    LogEvents[i].type = type /\ LogEvents[i].node_id = id})

\* How often the history of a node enters a state.
CountEntries(id, to) ==
    Cardinality({i \in 1..Len(contexts[id].transitions) : contexts[id].transitions[i].to = to})

\* C22: a Complete callback applied a second time for the same task is
\* rejected and changes neither the node contexts nor the log, so a node has at
\* most one Running -> Done transition and the log as many NodeCompleted
\* events for it.
C22_CompleteAppliedOnce ==
    /\ [](\A id \in DOMAIN contexts :
            /\ CountEntries(id, "Done") <= 1
            /\ CountNodeEvents("NodeCompleted", id) = CountEntries(id, "Done"))
    /\ [][(IsCallbackStep /\ ret'.msg.kind = "Complete" /\ ret'.msg.redelivery) =>
            /\ ~ret'.accepted
            /\ contexts' = contexts
            /\ append_log' = append_log /\ events_table' = events_table]_vars

\* The second Complete for the task of A arrived while the execution was
\* running and A was Done.
C22_Witness ==
    /\ ret.op = "callback" /\ ret.msg.kind = "Complete" /\ ret.msg.redelivery
    /\ ~ret.accepted
    /\ workflow_state = "Running"
    /\ contexts[ret.msg.node_id].state = "Done"
    /\ CountNodeEvents("NodeCompleted", ret.msg.node_id) = 1

\* The sequences of the events of a type logged for a node.
SequencesOf(type, id) ==
    {append_log[i].envelope.sequence : i \in {j \in 1..Len(append_log) :
        LogEvents[j].type = type /\ LogEvents[j].node_id = id}}

C24_CompletedIffAllDone ==
    /\ workflow_state = "Completed" <=> AllDone(contexts)
    /\ (is_complete(contexts) /\ ~AllDone(contexts)) =>
            workflow_state \in {"Failed", "Cancelled"}

\* The chain ended with A and B Done and C Failed for good.
C24_Witness ==
    /\ is_complete(contexts)
    /\ contexts["A"].state = "Done" /\ contexts["C"].state = "Failed"
    /\ workflow_state = "Failed"

\* The delays applied to a node, in order.
DelaysOf(id) ==
    LET mine == SelectSeq(delays_applied, LAMBDA d : d.node_id = id)
    IN [i \in 1..Len(mine) |-> mine[i].delay_ms]

\* The delay of the k-th retry in the retry scenario: 10 ms doubled k - 1 times.
ExpectedDelay(k) == 10 * 2 ^ (k - 1)

\* C25: a Failed callback that is applied takes the node from Running to
\* Failed; with retry_count < max_retries the node then goes to Retrying and
\* waits for its delay, otherwise it stays Failed and the workflow is marked
\* Failed.  A waiting node is not scheduled.  The delays applied to a node are
\* 10, 20, 40 ms, one per retry counted.
C25_FailedCallbackRetriesWithBackoff ==
    /\ [](\A id \in DOMAIN contexts :
            /\ DelaysOf(id) = [k \in 1..contexts[id].retry_count |-> ExpectedDelay(k)]
            /\ id \in waiting => contexts[id].state = "Retrying")
    /\ [][(IsCallbackStep /\ ret'.msg.kind = "Failed" /\ ret'.accepted) =>
            LET id == ret'.msg.node_id
                c == contexts[id]
                h == contexts'[id].transitions
            IN /\ c.state = "Running"
               /\ IF c.retry_count < c.max_retries
                  THEN /\ contexts'[id].state = "Retrying"
                       /\ contexts'[id].retry_count = c.retry_count + 1
                       /\ Len(h) = Len(c.transitions) + 2
                       /\ h[Len(h) - 1].from = "Running" /\ h[Len(h) - 1].to = "Failed"
                       /\ h[Len(h)].from = "Failed" /\ h[Len(h)].to = "Retrying"
                       /\ id \in waiting'
                       /\ workflow_state' = workflow_state
                  ELSE /\ contexts'[id].state = "Failed"
                       /\ Len(h) = Len(c.transitions) + 1
                       /\ workflow_state' = "Failed"]_vars
    /\ [][(ret'.op = "schedule" /\ contexts' # contexts) => ret'.node_id \notin waiting]_vars

\* C failed twice through Failed callbacks and then completed.
C25_Witness ==
    /\ "C" \in DOMAIN contexts
    /\ contexts["C"].state = "Done" /\ contexts["C"].retry_count = 2
    /\ contexts["C"].max_retries = 3
    /\ DelaysOf("C") = <<10, 20>>
    /\ CountEntries("C", "Running") = 3
    /\ retry_policy.backoff_ms = 10 /\ retry_policy.backoff_multiplier = 2

\* C26: a cancellation moves every node that is not terminal to Cancelled,
\* leaves the others alone, makes the workflow Cancelled and appends
\* WorkflowCancelled; once the workflow is Cancelled no step, the delivery of a
\* callback included, changes a node context or the log.
C26_CancellationStopsEverything ==
    /\ [][(ret'.op = "cancel_execution" /\ workflow_state' # workflow_state) =>
            /\ \A id \in DOMAIN contexts :
                    IF is_terminal(contexts[id].state)
                    THEN contexts'[id] = contexts[id]
                    ELSE contexts'[id].state = "Cancelled"
            /\ workflow_state' = "Cancelled"
            /\ Len(append_log') = Len(append_log) + 1
            /\ append_log'[Len(append_log')].envelope.event.type = "WorkflowCancelled"]_vars
    /\ [][workflow_state = "Cancelled" =>
            /\ workflow_state' = "Cancelled"
            /\ contexts' = contexts
            /\ append_log' = append_log /\ events_table' = events_table]_vars

\* A Failed callback arrived for a task that was running when the workflow was
\* cancelled.
C26_Witness ==
    /\ workflow_state = "Cancelled"
    /\ ret.op = "callback" /\ ret.msg.kind = "Failed" /\ ~ret.accepted
    /\ contexts[ret.msg.node_id].state = "Cancelled"
    /\ CountEntries(ret.msg.node_id, "Running") >= 1
    /\ \E id \in DOMAIN contexts : contexts[id].state = "Done"

SignatureIntact ==
    token[1].signature = Sign(token[1].data_uuid, token[1].issued_by, token[1].issued_at,
                              token[1].expires_at, token[1].permissions)

\* C29: for a token whose expires_at lies before the current time, is_expired()
\* is true, verify() is an error, which is Expired for a token as it was
\* issued, and the token is accepted for no action whatever its permission
\* bits; a token issued with ttl = -1 is in that case from the start.
C29_ExpiredTokenRejected ==
    /\ []((token # None /\ token[1].expires_at < token[1].issued_at /\ SignatureIntact) =>
            now > token[1].expires_at)
    /\ [][(token # None /\ token' = token /\ now' = now /\ now > token[1].expires_at) =>
            /\ ret'.op = "is_expired" => ret'.res = TRUE
            /\ ret'.op = "verify" =>
                    /\ ret'.res # "Ok"
                    /\ SignatureIntact => ret'.res = "Expired"
            /\ ret'.op = "present" => ~ret'.accepted]_vars

\* verify() answered Expired for a token issued with ttl = -1 and every
\* permission.
C29_Witness ==
    /\ token # None /\ SignatureIntact
    /\ token[1].expires_at = token[1].issued_at - 1
    /\ token[1].permissions = full
    /\ ret.op = "verify" /\ ret.res = "Expired"

\* C31: the first poll of a subscriber made with EventSubscriber::new() returns
\* none of the envelopes the log held when the subscriber was created; polled
\* right after its creation, it returns nothing.
C31_NewSubscriberStartsAtLatest ==
    [][(ret.op = "new" /\ IsPollCall /\ ret'.ok) =>
        /\ ret'.res = << >>
        /\ \A e \in events_table :
              \A i \in 1..Len(delivered') : delivered'[i] # e]_vars

\* The step is a call of ctx.fail(error).
IsFailCall == ret'.op = "fail" /\ <<ctx, ret>>' # <<ctx, ret>>

\* C32: fail(error) in a state that has no edge to Failed returns
\* InvalidTransition and leaves the NodeContext as it was, last_error included.
C32_IllegalFailNoEffect ==
    [][(IsFailCall /\ ctx.state \notin {"Scheduled", "Running"}) =>
        /\ ret'.res = [ok |-> FALSE, err |-> "InvalidTransition",
                       from |-> ctx.state, to |-> "Failed"]
        /\ ctx' = ctx]_vars

\* C33: retry_count never exceeds max_retries.
C33_RetryCountBounded == ctx.retry_count <= ctx.max_retries

\* C34: completed_at is set exactly in the terminal states.
C34_CompletedAtIffTerminal == IsSome(ctx.completed_at) <=> is_terminal(ctx.state)

\* C35: when started_at and completed_at are both set, started_at is not the
\* later one: duration() is not negative.
C35_DurationNotNegative ==
    IsSome(duration(ctx)) => duration(ctx)[1] >= 0
\* C36: with a fixed node set, a node transition never lowers the number of
\* terminal nodes, and is_complete, once true, stays true.
C36_ProgressMonotonic ==
    [][(DOMAIN contexts' = DOMAIN contexts) =>
        /\ Cardinality(TerminalNodes(contexts')) >= Cardinality(TerminalNodes(contexts))
        /\ (is_complete(contexts) => is_complete(contexts'))]_vars

\* C37: is_complete is true exactly when progress is 1, also with no nodes.
C37_CompleteIffProgressOne ==
    is_complete(contexts) <=> (progress(contexts)[1] = progress(contexts)[2])


\* The step is a call of add_node.
IsAddNodeCall == ret'.op = "add_node" /\ graph_nodes' # graph_nodes

\* C38: after add_node calls, also with reused ids, node_count equals the
\* number of node_ids, every vertex is the one get_node finds by its id, and
\* add_node leaves the state of every existing NodeContext as it was.
C38_AddNodeKeepsDagConsistent ==
    [][IsAddNodeCall =>
        /\ node_count' = Cardinality(node_ids')
        /\ \A i \in 1..Len(graph_nodes') : node_indices'[graph_nodes'[i].id] = i
        /\ \A id \in DOMAIN contexts : contexts'[id].state = contexts[id].state]_vars


\* C40: a decision of schedule_node, schedule_next or schedule_with_affinity
\* names a node of the DAG, and a node_id that is not in the DAG gets None.
C40_DecisionNamesDagNode ==
    [][(ret'.op \in {"schedule_node", "schedule_next", "schedule_with_affinity"}) =>
        /\ IsSome(ret'.res) => ret'.res[1].node_id \in DOMAIN node_indices
        /\ (ret'.op # "schedule_next" /\ ret'.node_id \notin DOMAIN node_indices)
              => ret'.res = None]_vars


\* C39: an append never gets a sequence that was assigned before, whatever
\* appends, compactions, closes and reopens came earlier: the envelope it
\* stores has a sequence above every sequence assigned so far.
C39_SequenceNeverReused ==
    [][\A i \in (Len(append_log) + 1)..Len(append_log') :
          \A j \in 1..Len(append_log) :
              append_log'[i].envelope.sequence > append_log[j].envelope.sequence]_vars


====
